---- MODULE Spec2Model ----
(***************************************************************************)
(* One POST /crawl request of the crawler service (src/app.py), from the   *)
(* arrival of the request to its response.                                 *)
(*                                                                         *)
(* The handling in app.py is: the HTTPBearer security scheme and           *)
(* verify_api_key, the validation of the CrawlRequest body, crawl_url      *)
(* (which configures the crawl and awaits crawler.arun) and the response.  *)
(* The traversal itself is carried out by the collaborator behind          *)
(* crawler.arun (BFSDeepCrawlStrategy); app.py holds only its              *)
(* configuration.  The collaborator is modelled from the design document   *)
(* (sections 4.2, 4.3 and 5): a level-by-level breadth-first traversal     *)
(* whose pages of one level may be in flight together.  What a fetch       *)
(* returns (its links, its success) is chosen when the fetch completes.    *)
(***************************************************************************)
EXTENDS Integers, Sequences, FiniteSets, TLC

\* ---------------------------------------------------------------- bounds

\* max_depth of a request ranges over -1 .. MaxDepthBound
MaxDepthBound == 2
\* a fetched page carries at most MaxLinks outbound links
MaxLinks == 2

\* ------------------------------------------------------------ the inputs

\* URLs after normalisation; "a0", "a1", "a2" share a host, "x0" is on another
URLS == {"a0", "a1", "a2", "x0"}

Host(u) == IF u = "x0" THEN "x" ELSE "a"

Seeds == {"a0", "x0"}

\* the request carries no Authorization: Bearer credential
NoToken == "<none>"

\* os.getenv("API_KEY", "admin")
API_KEY == "admin"

Tokens == {NoToken, "admin", "Admin", "wrong"}

Depths == -1 .. MaxDepthBound

\* config.deep_crawl_strategy when max_depth <= 0
None == [kind |-> "None", max_depth |-> 0, include_external |-> FALSE]

VARIABLES
    token,        \* the presented bearer token, or NoToken
    urlValid,     \* whether the body's url parses as an HttpUrl
    url,          \* str(request.url), the seed
    max_depth,    \* request.max_depth
    pc,           \* where the handling of the request stands
    calls,        \* number of invocations of crawler.arun
    strategy,     \* config.deep_crawl_strategy of the running crawl
    pending,      \* current level: URLs not yet started
    inflight,     \* current level: URLs whose fetch has started
    next_level,   \* URLs discovered for the next level
    visited,      \* URLs the traversal has enqueued
    depths,       \* depth of discovery of each enqueued URL, -1 otherwise
    parent,       \* the page that discovered each URL ("" for none)
    links,        \* the links each successfully fetched page returned
    fetchlog,     \* the URLs handed to the fetch engine, in order
    results,      \* the collaborator's results, in completion order
    failed,       \* URLs whose fetch failed
    status,       \* HTTP status of the response, 0 while there is none
    shape,        \* "none" | "list" | "object" | "error"
    body          \* the CrawlResult items of a 200 response

reqvars == <<token, urlValid, url, max_depth>>
travvars == <<strategy, pending, inflight, next_level, visited, depths,
              parent, links, fetchlog, results, failed>>
respvars == <<status, shape, body>>
vars == <<reqvars, pc, calls, travvars, respvars>>

Range(s) == {s[i] : i \in 1 .. Len(s)}

Init ==
    /\ token \in Tokens
    /\ urlValid \in BOOLEAN
    /\ url \in Seeds
    /\ max_depth \in Depths
    /\ pc = "recv"
    /\ calls = 0
    /\ strategy = None
    /\ pending = {}
    /\ inflight = {}
    /\ next_level = {}
    /\ visited = {}
    /\ depths = [u \in URLS |-> -1]
    /\ parent = [u \in URLS |-> ""]
    /\ links = [u \in URLS |-> {}]
    /\ fetchlog = <<>>
    /\ results = <<>>
    /\ failed = {}
    /\ status = 0
    /\ shape = "none"
    /\ body = <<>>

\* the request ends with an HTTP error
Respond(code) ==
    /\ pc' = "done"
    /\ status' = code
    /\ shape' = "error"
    /\ body' = <<>>

\* ------------------------------------------------- the authentication gate

\* HTTPBearer() with its default auto_error: a request without bearer
\* credentials is refused by the scheme itself, before verify_api_key runs.
\* The status is the framework's: 403 "Not authenticated", or 401 in the
\* releases that answer a missing credential with WWW-Authenticate.
NotAuthenticatedStatus == {401, 403}

HTTPBearerReject ==
    /\ pc = "recv"
    /\ token = NoToken
    /\ \E code \in NotAuthenticatedStatus : Respond(code)
    /\ UNCHANGED <<reqvars, calls, travvars>>

\* credentials.credentials != api_key
KeyMismatch(t) == t # API_KEY

verify_api_key_reject ==
    /\ pc = "recv"
    /\ token # NoToken
    /\ KeyMismatch(token)
    /\ Respond(401)
    /\ UNCHANGED <<reqvars, calls, travvars>>

verify_api_key_accept ==
    /\ pc = "recv"
    /\ token # NoToken
    /\ ~KeyMismatch(token)
    /\ pc' = "authed"
    /\ UNCHANGED <<reqvars, calls, travvars, respvars>>

\* ------------------------------------------------------ request validation

\* CrawlRequest: url is an HttpUrl, max_depth any int (default 1)
CrawlRequestValid(uv, md) == uv

ValidateReject ==
    /\ pc = "authed"
    /\ ~CrawlRequestValid(urlValid, max_depth)
    /\ Respond(422)
    /\ UNCHANGED <<reqvars, calls, travvars>>

ValidateAccept ==
    /\ pc = "authed"
    /\ CrawlRequestValid(urlValid, max_depth)
    /\ pc' = "valid"
    /\ UNCHANGED <<reqvars, calls, travvars, respvars>>

\* ------------------------------------------------- crawl_url: configuration

\* BFSDeepCrawlStrategy(max_depth=max_depth, ...)
StrategyMaxDepth(md) == md

\* the strategy configured to follow external links as well
IncludeExternalTrue == TRUE

\* BFSDeepCrawlStrategy(..., include_external=False)
IncludeExternal == FALSE

\* deep_crawl_strategy=BFSDeepCrawlStrategy(...) if max_depth > 0 else None
deep_crawl_strategy(md) ==
    IF md > 0
    THEN [kind |-> "BFS", max_depth |-> StrategyMaxDepth(md),
          include_external |-> IncludeExternal]
    ELSE None

\* crawl_endpoint calls crawl_url(str(request.url), request.max_depth), which
\* builds the configuration and awaits crawler.arun(url, config=config)
CrawlStart ==
    /\ pc = "valid"
    /\ pc' = "crawling"
    /\ calls' = calls + 1
    /\ strategy' = deep_crawl_strategy(max_depth)
    /\ pending' = {url}
    /\ visited' = {url}
    /\ depths' = [depths EXCEPT ![url] = 0]
    /\ UNCHANGED <<reqvars, inflight, next_level, parent, links, fetchlog,
                   results, failed, respvars>>

\* ------------------------------------------- the collaborator: crawler.arun

LinkSets == {L \in SUBSET URLS : Cardinality(L) <= MaxLinks}

\* scope rule: a link is a candidate only on the seed's host
InScope(l) == strategy.include_external \/ Host(l) = Host(url)

\* no deduplication: every link in scope is a candidate
UnseenAlways(l) == TRUE

\* deduplication: a URL already enqueued is not a candidate again
Unseen(l) == l \notin visited

\* depth ceiling: the links of a page at depth d are candidates of depth d+1
\* only when d+1 <= max_depth; without a strategy nothing is followed
WithinDepth(u) == strategy.kind = "BFS" /\ depths[u] + 1 <= strategy.max_depth

Candidates(u, L) ==
    IF WithinDepth(u) THEN {l \in L : InScope(l) /\ Unseen(l)} ELSE {}

\* the fetch of a page of the current level starts
FetchStart(u) ==
    /\ pc = "crawling"
    /\ u \in pending
    /\ pending' = pending \ {u}
    /\ inflight' = inflight \cup {u}
    /\ fetchlog' = Append(fetchlog, u)
    /\ UNCHANGED <<reqvars, pc, calls, strategy, next_level, visited, depths,
                   parent, links, results, failed, respvars>>

\* a fetch completes with the page and its outbound links L
FetchOk(u, L) ==
    /\ pc = "crawling"
    /\ u \in inflight
    /\ inflight' = inflight \ {u}
    /\ results' = Append(results, [url |-> u, success |-> TRUE, markdown |-> "text"])
    /\ links' = [links EXCEPT ![u] = L]
    /\ LET new == Candidates(u, L) IN
        /\ next_level' = next_level \cup new
        /\ visited' = visited \cup new
        /\ depths' = [v \in URLS |-> IF v \in new THEN depths[u] + 1 ELSE depths[v]]
        /\ parent' = [v \in URLS |-> IF v \in new THEN u ELSE parent[v]]
    /\ UNCHANGED <<reqvars, pc, calls, strategy, pending, fetchlog, failed,
                   respvars>>

\* a fetch fails and the engine reports it as a result without content
\* (success = False, no markdown); the traversal goes on
FetchFailed(u) ==
    /\ pc = "crawling"
    /\ u \in inflight
    /\ inflight' = inflight \ {u}
    /\ results' = Append(results, [url |-> u, success |-> FALSE, markdown |-> "None"])
    /\ failed' = failed \cup {u}
    /\ UNCHANGED <<reqvars, pc, calls, strategy, pending, next_level, visited,
                   depths, parent, links, fetchlog, respvars>>

\* the current level is complete: the traversal moves to the next level
AdvanceLevel ==
    /\ pc = "crawling"
    /\ pending = {}
    /\ inflight = {}
    /\ next_level # {}
    /\ pending' = next_level
    /\ next_level' = {}
    /\ UNCHANGED <<reqvars, pc, calls, strategy, inflight, visited, depths,
                   parent, links, fetchlog, results, failed, respvars>>

\* ------------------------------------------------ crawl_url: the two exits

\* an exception handler that starts the crawl again instead of answering
OnExceptionRetry ==
    /\ pc' = "crawling"
    /\ pending' = {url}
    /\ inflight' = {}
    /\ next_level' = {}
    /\ visited' = {url}
    /\ depths' = [v \in URLS |-> IF v = url THEN 0 ELSE -1]
    /\ parent' = [v \in URLS |-> ""]
    /\ links' = [v \in URLS |-> {}]
    /\ fetchlog' = <<>>
    /\ results' = <<>>
    /\ UNCHANGED <<strategy, respvars>>

\* except Exception as e: raise HTTPException(status_code=500, ...)
OnException ==
    /\ Respond(500)
    /\ UNCHANGED <<strategy, pending, inflight, next_level, visited, depths,
                   parent, links, fetchlog, results>>

\* a fetch fails and the failure leaves crawler.arun as an exception
FetchRaise(u) ==
    /\ pc = "crawling"
    /\ u \in inflight
    /\ failed' = failed \cup {u}
    /\ OnException
    /\ UNCHANGED <<reqvars, calls>>

\* CrawlResult(url=result.url, markdown=str(result._markdown))
ToCrawlResult(r) == [url |-> r.url, markdown |-> r.markdown]

\* the results returned in reverse order
ToCrawlResultsReversed(rs) ==
    [i \in 1 .. Len(rs) |-> ToCrawlResult(rs[Len(rs) + 1 - i])]

\* [CrawlResult(...) for result in results]
ToCrawlResults(rs) == [i \in 1 .. Len(rs) |-> ToCrawlResult(rs[i])]

\* what crawl_url returns is the list comprehension, whatever max_depth is
ResponseShape(md) == "list"

\* crawler.arun has returned: the frontier is exhausted
CrawlReturn ==
    /\ pc = "crawling"
    /\ pending = {}
    /\ inflight = {}
    /\ next_level = {}
    /\ pc' = "done"
    /\ status' = 200
    /\ shape' = ResponseShape(max_depth)
    /\ body' = ToCrawlResults(results)
    /\ UNCHANGED <<reqvars, calls, travvars>>

\* ------------------------------------------------------ the specification

Next ==
    \/ HTTPBearerReject
    \/ verify_api_key_reject
    \/ verify_api_key_accept
    \/ ValidateReject
    \/ ValidateAccept
    \/ CrawlStart
    \/ \E u \in URLS : FetchStart(u)
    \/ \E u \in URLS, L \in LinkSets : FetchOk(u, L)
    \/ \E u \in URLS : FetchFailed(u)
    \/ \E u \in URLS : FetchRaise(u)
    \/ AdvanceLevel
    \/ CrawlReturn

Spec == Init /\ [][Next]_vars

\* every step of the handling is eventually taken: the event loop runs the
\* handler, and every fetch returns
FairSpec == Spec /\ WF_vars(Next)

\* ------------------------------------------------------------- the claims

Unauthorized == token = NoToken \/ token # API_KEY

Completed == {results[k].url : k \in 1 .. Len(results)}

BodyUrls == {body[k].url : k \in 1 .. Len(body)}

NoDuplicates(s) == \A i, j \in 1 .. Len(s) : i # j => s[i] # s[j]

\* C1: a request whose bearer token is missing or differs from the configured
\* secret is answered 401, and crawler.arun is never invoked for it.
C1_UnauthorizedIs401NoFetch ==
    Unauthorized => /\ calls = 0
                    /\ pc = "done" => status = 401

\* C2: an authorized request with max_depth = 0 whose seed fetch succeeds
\* returns exactly one result, unwrapped as a single object, whose url is the
\* seed; with max_depth > 0 the outcome is a sequence.
C2_DepthZeroUnwrapped ==
    (pc = "done" /\ status = 200 /\ failed = {}) =>
        /\ max_depth = 0 =>
            /\ shape = "object"
            /\ Len(body) = 1
            /\ body[1].url = url
        /\ max_depth > 0 => shape = "list"

C4_DepthCeiling ==
    \A u \in visited \cup Range(fetchlog) \cup BodyUrls : depths[u] <= max_depth

\* the depth ceiling for the requests the data model allows (max_depth >= 0):
\* every enqueued, fetched or returned URL has a depth in 0 .. max_depth
DepthCeilingOfValidRequests ==
    max_depth >= 0 =>
        \A u \in visited \cup Range(fetchlog) \cup BodyUrls :
            depths[u] >= 0 /\ depths[u] <= max_depth

\* C5: within one request a URL is fetched at most once and appears at most
\* once in the outcome, however many links lead to it.
C5_NoRevisit ==
    /\ NoDuplicates(fetchlog)
    /\ NoDuplicates([k \in 1 .. Len(results) |-> results[k].url])
    /\ NoDuplicates([k \in 1 .. Len(body) |-> body[k].url])

\* C5 witness: max_depth = 1 and the seed page links back to itself: the
\* outcome is a list of one item
C5_Witness ==
    /\ pc = "done"
    /\ status = 200
    /\ max_depth = 1
    /\ links[url] = {url}
    /\ shape = "list"
    /\ Len(body) = 1

\* C6: a link whose host differs from the seed's host is never enqueued or
\* fetched, so no result of the outcome is on another host.
C6_SameHostOnly ==
    \A u \in visited \cup pending \cup inflight \cup next_level
             \cup Range(fetchlog) \cup BodyUrls :
        Host(u) = Host(url)

\* C6 witness: a page above the depth ceiling carried an external link and
\* a link of the seed's host, and the traversal has returned
C6_Witness ==
    /\ pc = "done"
    /\ status = 200
    /\ Len(body) >= 2
    /\ \E l \in links[url] : Host(l) # Host(url)

\* C7: when the seed page cannot be retrieved the request fails with a 500
\* and no result is returned.
C7_SeedFailureIs500 ==
    (pc = "done" /\ url \in failed) =>
        /\ status = 500
        /\ shape = "error"
        /\ body = <<>>

\* C8: a request with a malformed URL or a negative max_depth is rejected
\* before any fetch: crawler.arun is not invoked and no 200 is returned.
C8_InvalidRequestRejected ==
    (~urlValid \/ max_depth < 0) => (calls = 0 /\ status # 200)

\* C9: when the fetch of a non-seed page fails, the request ends with a 500
\* and the results collected so far are not returned.
C9_NonSeedFailureAborts ==
    (pc = "done" /\ failed \ {url} # {}) =>
        /\ status = 500
        /\ body = <<>>

\* C10: the traversal terminates: the request eventually has its response,
\* whatever the links, cycles included.
C10_Terminates == <>(pc = "done")

\* C10 witness: two pages linking to each other were both fetched and the
\* traversal has returned
C10_Witness ==
    /\ pc = "done"
    /\ status = 200
    /\ \E u, v \in Completed : u # v /\ v \in links[u] /\ u \in links[v]

====
